---- MODULE Spec2Model ----
(***************************************************************************)
(* Model of llmstack/play/messages.py (the Message envelope) and of        *)
(* llmstack/apps/runner/output_actor.py (OutputActor: the terminal         *)
(* aggregator with its on_receive dispatch, its buffer and the get_output  *)
(* consumer stream).                                                       *)
(*                                                                         *)
(* Representation.                                                         *)
(*  - Optional values: None is the empty sequence, Some(x) is <<x>>.       *)
(*  - A Python dict is a function; the empty dict is EmptyDict.            *)
(*  - A structured document (the stitched data, a chunk) is a dict whose   *)
(*    keys are paths (sequences of keys) and whose values are the scalar   *)
(*    leaves, so {"A": {"a": 1}} is (<<"A","a">> :> 1).                     *)
(*  - A text is a sequence of characters (small naturals here).            *)
(*  - on_receive runs atomically (single writer); get_output is cut at     *)
(*    every read of shared state and at its yield and await points.        *)
(***************************************************************************)
EXTENDS Integers, Sequences, FiniteSets, TLC

\* Number of on_receive calls in one behaviour.
MaxMsgs == 3
\* Number of Message values constructed in one behaviour of MsgSpec.
MaxCreated == 2

VARIABLES
    default_id,       \* Message.id's default, evaluated once in the class body
    created,          \* Message values constructed so far (MsgSpec)
    h_id_omitted,     \* history: for each of them, whether its id was left to the default
    stitched_data,    \* self._stitched_data
    int_output,       \* self._int_output
    errors,           \* self._errors
    stopped,          \* self._stopped
    h_stop_again,     \* history: on_stop() was called with the stop flag already set
    content_queue,    \* self._content_queue: the buffered fragments, oldest first
    unfinished,       \* self._content_queue's count of unfinished tasks
    messages,         \* self._messages
    pc,               \* get_output's position
    delivered,        \* fragments yielded by the current get_output stream in the
                      \* current run
    h_npush,          \* history: fragments pushed in this run
    h_nsuccess,       \* history: terminal success fragments pushed in this run
    h_queue_src,      \* history: for each buffered fragment, Pushed(k, clean): it was the
                      \* k-th push of its run, made with (clean) or without the error
                      \* list and the stop flag both still unset
    h_delivered_src,  \* history: the same for each delivered fragment (TerminalSrc for
                      \* a terminal failure fragment)
    h_text,           \* history: the text of the last render that succeeded in this run
    h_replay,         \* history: the text a reader gets by applying, in order and from
                      \* the empty text, the deltas pushed in this run (None when one
                      \* of them does not apply)
    h_content,        \* history: sender -> content of its last CONTENT processed in this run
    h_dup,            \* history: some sender's CONTENT was processed twice in this run
    h_post,           \* history: an ERRORS message was processed after the stream ended
    h_stream_reset,   \* history: reset() was called while the current stream was open
    h_cancelled,      \* history: the current stream was cancelled
    h_recv,           \* history: what the latest on_receive call of this run did
    nmsgs             \* on_receive calls so far

msg_vars == <<default_id, created, h_id_omitted>>
doc_vars == <<stitched_data, int_output, h_text, h_replay>>
content_vars == <<messages, h_content, h_dup>>
error_vars == <<errors, h_post>>
stop_vars == <<stopped, h_stop_again>>
queue_vars == <<content_queue, unfinished, h_npush, h_nsuccess, h_queue_src>>

\* The producer side: what on_receive, on_stop and reset change besides the queue.
producer_vars == <<doc_vars, content_vars, error_vars, stop_vars, h_recv, nmsgs>>

\* The consumer side: what get_output changes besides the queue.
consumer_vars == <<pc, delivered, h_delivered_src, h_stream_reset, h_cancelled>>

vars == <<msg_vars, queue_vars, producer_vars, consumer_vars>>

-----------------------------------------------------------------------------
(* Values *)

None == <<>>
Some(x) == <<x>>
EmptyDict == [k \in {} |-> 0]

\* Python truthiness of an Optional[list]: None and [] are falsy.
Truthy(opt) == opt # None /\ Len(opt[1]) > 0

RECURSIVE Concat(_)
Concat(ss) == IF ss = <<>> THEN <<>> ELSE Head(ss) \o Concat(Tail(ss))

-----------------------------------------------------------------------------
(* llmstack/play/messages.py *)

MessageType == {"BEGIN", "CONTENT", "CONTENT_STREAM_CHUNK", "CONTENT_STREAM_BEGIN",
                "CONTENT_STREAM_END", "ERRORS"}

\* The values uuid.uuid4() may return.
UUIDs == {"u1", "u2"}

\* Error(message=m): code keeps its default.
Error(m) == [code |-> -1, message |-> m]

\* The payload classes; cls names the Python class of the value.
ErrorsData(errs) == [cls |-> "ErrorsData", errors |-> errs]
ContentData(c) == [cls |-> "ContentData", content |-> c]
ContentStreamChunkData(c) == [cls |-> "ContentStreamChunkData", chunk |-> c]
DictData(d) == [cls |-> "dict", items |-> d]
NoData == [cls |-> "NoneType"]

\* obj.name succeeds: only the pydantic payload classes carry fields as attributes.
HasAttr(obj, name) ==
    /\ obj.cls \in {"ErrorsData", "ContentData", "ContentStreamChunkData"}
    /\ name \in DOMAIN obj

\* Message(type=t, sender=s, data=d): id is omitted and takes the class default,
\* which the class body computed once; no validator relates data to type.
Message(t, s, d) ==
    [id |-> default_id, type |-> t, sender |-> s, receiver |-> None,
     reply_to |-> None, data |-> d]

\* Message(id=i, type=t, sender=s, data=d).
MessageWithId(i, t, s, d) == [Message(t, s, d) EXCEPT !.id = i]

-----------------------------------------------------------------------------
(* The collaborators of OutputActor: the merge engine, the template engine *)
(* and the delta engine.                                                   *)

\* stitch_model_objects(obj1, obj2): deep merge of two documents; maps are merged
\* key by key, a leaf of obj2 replaces the same leaf of obj1.
stitch_model_objects(obj1, obj2) ==
    [p \in (DOMAIN obj1) \cup (DOMAIN obj2) |->
        IF p \in DOMAIN obj2 THEN obj2[p] ELSE obj1[p]]

\* render_template(template, data): a template is the sequence of the paths it
\* interpolates; a path missing from data renders blank.
render_template(template, data) ==
    Concat([i \in 1..Len(template) |->
              IF template[i] \in DOMAIN data THEN <<data[template[i]]>> ELSE <<>>])

\* Length of the longest common prefix of two texts.
CommonPrefix(text1, text2) ==
    LET m == IF Len(text1) < Len(text2) THEN Len(text1) ELSE Len(text2)
        same == {k \in 0..m : SubSeq(text1, 1, k) = SubSeq(text2, 1, k)}
    IN  CHOOSE k \in same : \A j \in same : j <= k

\* DiffMatchPatch.to_delta(text1, text2): keep the common prefix, delete the rest
\* of text1, insert the rest of text2.
to_delta(text1, text2) ==
    LET k == CommonPrefix(text1, text2)
    IN  [keep |-> k, delete |-> Len(text1) - k,
         insert |-> SubSeq(text2, k + 1, Len(text2))]

\* Applying an edit script to the text it was computed from.
from_delta(text1, delta) == SubSeq(text1, 1, delta.keep) \o delta.insert

\* Applying an edit script to any text: it applies only to a text of the length
\* it keeps and deletes.
apply_delta(text, delta) ==
    IF text # None /\ Len(text[1]) = delta.keep + delta.delete
    THEN Some(from_delta(text[1], delta))
    ELSE None

-----------------------------------------------------------------------------
(* llmstack/apps/runner/output_actor.py: the modelled instance *)

Senders == {"A", "B", "X"}

\* OutputActor(dependencies=["A", "B"], templates={"output": "{{A.a}}{{a}}"},
\*             spread_output_for_keys={"B"})
dependencies == {"A", "B"}
spread_output_for_keys == {"B"}
templates == [output |-> << <<"A", "a">>, <<"a">> >>]

\* A one-key document {k: v}.
Doc(k, v) == (<<k>> :> v)

\* {key: doc}: doc nested under key.
Nest(key, doc) ==
    [p \in {<<key>> \o q : q \in DOMAIN doc} |-> doc[Tail(p)]]

\* Final values: a plain value, or a pydantic model that model_dump() turns into a dict.
Str(v) == [kind |-> "str", value |-> v]
Model(v) == [kind |-> "BaseModel", value |-> v]
model_dump(c) == [kind |-> "dict", value |-> c.value]

\* The messages the upstream actors send in the model.
ChunkMessages ==
    {Message("CONTENT_STREAM_CHUNK", x[1], ContentStreamChunkData(x[2])) :
        x \in {<<"A", Doc("a", 1)>>, <<"B", Doc("a", 2)>>}}
ContentMessages ==
    {Message("CONTENT", x[1], ContentData(x[2])) :
        x \in {<<"A", Str("done-A")>>, <<"B", Model("done-B")>>, <<"X", Str("done-X")>>}}
ErrorsMessages ==
    {Message("ERRORS", "A", ErrorsData(e)) :
        e \in {<<>>, <<Error("e1")>>, <<Error("e2"), Error("e1")>>}}
OtherMessages ==
    {Message("BEGIN", "A", NoData),
     Message("CONTENT", "B", NoData)}
Inputs == ChunkMessages \cup ContentMessages \cup ErrorsMessages \cup OtherMessages

-----------------------------------------------------------------------------
(* OutputActor.on_receive *)

\* The incremental fragment of a chunk.
IncrementalFragment(delta, sender, chunk) ==
    [deltas |-> [output |-> delta], chunk |-> (sender :> chunk)]

\* The terminal success fragment holds the two dicts self._int_output and
\* self._messages themselves, not copies of them: what a reader of the fragment
\* sees is their content at the time it reads.
SuccessFragment == [output |-> "self._int_output", chunks |-> "self._messages"]

IsIncremental(f) == "deltas" \in DOMAIN f
IsSuccess(f) == "chunks" \in DOMAIN f
IsFailure(f) == "errors" \in DOMAIN f

\* What the latest on_receive call of this run did (history): the type of its
\* message, whether it returned or raised, the fragment it pushed, and whether it
\* changed the stitched document or the rendered output; bookkept: it emitted a
\* bookkeeping record, which are the calls that reach line 70 and push the
\* incremental fragment; replaced: it replaced a recorded, non-empty error list
\* by a different one. After a reset() and until the next call: that reset(),
\* and whether it dropped buffered fragments.
Recv(message, outcome, push, changed) ==
    [type |-> message.type, outcome |-> outcome, push |-> push, changed |-> changed,
     bookkept |-> (push = "incremental"), replaced |-> FALSE]
NoRecv ==
    [type |-> "none", outcome |-> "returned", push |-> "none", changed |-> FALSE,
     bookkept |-> FALSE, replaced |-> FALSE]
AfterReset(dropped) ==
    [type |-> "reset", outcome |-> "returned", push |-> "none", changed |-> dropped,
     bookkept |-> FALSE, replaced |-> FALSE]

Pushed(k, clean) == [k |-> k, clean |-> clean]
TerminalSrc == Pushed(0, FALSE)

\* self._content_queue.put_nowait(fragment)
put_nowait(fragment) ==
    /\ content_queue' = Append(content_queue, fragment)
    /\ unfinished' = unfinished + 1
    /\ h_npush' = h_npush + 1
    /\ h_nsuccess' = IF IsSuccess(fragment) THEN h_nsuccess + 1 ELSE h_nsuccess
    /\ h_queue_src' = Append(h_queue_src, Pushed(h_npush + 1, errors = None /\ ~stopped))

\* get_output has been called and has not ended.
StreamOpen == pc \notin {"idle", "done", "raised"}

\* Mutant of on_error: the reported errors are added to the recorded ones.
on_error_Extend(sender, errs) ==
    /\ errors' = IF errors = None THEN <<errs>> ELSE <<errors[1] \o errs>>
    /\ h_post' = (h_post \/ pc \in {"done", "raised"})

\* on_error(sender, errors)
on_error(sender, errs) ==
    /\ errors' = Some(errs)
    /\ h_post' = (h_post \/ pc \in {"done", "raised"})

\* Mutant of the spread test: the senders of the spread set are the namespaced ones.
ChunkContribution_Flipped(message) ==
    IF message.sender \in spread_output_for_keys
    THEN Nest(message.sender, message.data.chunk)
    ELSE message.data.chunk

\* The document handed to stitch_model_objects: the chunk under its sender's key,
\* or the chunk itself for a sender of the spread set.
ChunkContribution(message) ==
    IF message.sender \notin spread_output_for_keys
    THEN Nest(message.sender, message.data.chunk)
    ELSE message.data.chunk

\* Mutant of the delta's base: always the empty text.
PreviousOutput_Empty(out) == <<>>

\* self._int_output.get("output", "")
PreviousOutput(out) == IF "output" \in DOMAIN out THEN out.output ELSE <<>>

\* Mutant of the normalisation: the content is stored as it came.
FinalValue_Raw(content) == content

\* content.model_dump() if isinstance(content, BaseModel) else content
FinalValue(content) ==
    IF content.kind = "BaseModel" THEN model_dump(content) ELSE content

\* Mutants of the completion test: only dependencies have sent CONTENT; every
\* dependency has sent CONTENT.
DependenciesSatisfied_Only(msgs) == DOMAIN msgs \subseteq dependencies
DependenciesSatisfied_Every(msgs) == dependencies \subseteq DOMAIN msgs

\* set(self._dependencies) == set(self._messages.keys())
DependenciesSatisfied(msgs) == dependencies = DOMAIN msgs

\* The ERRORS branch; message.data.errors raises AttributeError outside any try.
ReceiveErrors(message) ==
    /\ IF HasAttr(message.data, "errors")
       THEN /\ on_error(message.sender, message.data.errors)
            /\ h_recv' = [Recv(message, "returned", "none", FALSE) EXCEPT
                             !.replaced = Truthy(errors)
                                            /\ errors # Some(message.data.errors)]
       ELSE /\ h_recv' = Recv(message, "raised", "none", FALSE)
            /\ UNCHANGED error_vars
    /\ UNCHANGED <<doc_vars, content_vars, queue_vars>>

\* The CONTENT_STREAM_CHUNK branch. render_ok: render_template returns (it raises
\* otherwise, as does self._templates["output"] without that template);
\* bookkeep_ok: self._output_stream.bookkeep returns. Every exception of the
\* branch is caught and logged; what was assigned before it stays assigned.
ReceiveChunk(message, render_ok, bookkeep_ok) ==
    /\ IF ~HasAttr(message.data, "chunk")
       THEN /\ h_recv' = Recv(message, "returned", "none", FALSE)
            /\ UNCHANGED <<doc_vars, queue_vars>>
       ELSE LET stitched == stitch_model_objects(stitched_data,
                                                 ChunkContribution(message))
                new_int_output == render_template(templates.output, stitched)
                delta == to_delta(PreviousOutput(int_output), new_int_output)
                out == IF render_ok THEN ("output" :> new_int_output) @@ int_output
                       ELSE int_output
                pushed == render_ok /\ bookkeep_ok
            IN  /\ stitched_data' = stitched
                /\ int_output' = out
                /\ h_text' = IF render_ok THEN Some(new_int_output) ELSE h_text
                /\ h_replay' = IF pushed THEN apply_delta(h_replay, delta) ELSE h_replay
                /\ IF pushed
                   THEN put_nowait(IncrementalFragment(delta, message.sender,
                                                       message.data.chunk))
                   ELSE UNCHANGED queue_vars
                /\ h_recv' = Recv(message, "returned",
                                  IF pushed THEN "incremental" ELSE "none",
                                  stitched # stitched_data \/ out # int_output)
    /\ UNCHANGED <<content_vars, error_vars>>

\* The CONTENT branch; message.data.content raises AttributeError outside any try.
ReceiveContent(message) ==
    /\ IF HasAttr(message.data, "content")
       THEN LET msgs == (message.sender :> FinalValue(message.data.content))
                            @@ messages
            IN  /\ messages' = msgs
                /\ h_content' = (message.sender :> message.data.content) @@ h_content
                /\ h_dup' = (h_dup \/ message.sender \in DOMAIN h_content)
                /\ IF DependenciesSatisfied(msgs)
                   THEN /\ put_nowait(SuccessFragment)
                        /\ h_recv' = Recv(message, "returned", "success", FALSE)
                   ELSE /\ UNCHANGED queue_vars
                        /\ h_recv' = Recv(message, "returned", "none", FALSE)
       ELSE /\ h_recv' = Recv(message, "raised", "none", FALSE)
            /\ UNCHANGED <<content_vars, queue_vars>>
    /\ UNCHANGED <<doc_vars, error_vars>>

on_receive(message, render_ok, bookkeep_ok) ==
    /\ nmsgs < MaxMsgs
    /\ nmsgs' = nmsgs + 1
    /\ CASE message.type = "ERRORS" -> ReceiveErrors(message)
         [] message.type = "CONTENT_STREAM_CHUNK" ->
                ReceiveChunk(message, render_ok, bookkeep_ok)
         [] message.type = "CONTENT" -> ReceiveContent(message)
         [] OTHER ->
                /\ h_recv' = Recv(message, "returned", "none", FALSE)
                /\ UNCHANGED <<doc_vars, content_vars, error_vars, queue_vars>>
    /\ UNCHANGED <<stop_vars, msg_vars, consumer_vars>>

-----------------------------------------------------------------------------
(* OutputActor.on_stop, OutputActor.reset *)

\* Mutant of on_stop: the call flips the flag.
on_stop_Toggle ==
    /\ stopped' = ~stopped
    /\ h_stop_again' = stopped
    /\ UNCHANGED <<doc_vars, content_vars, error_vars, h_recv, nmsgs, queue_vars,
                   msg_vars, consumer_vars>>

on_stop ==
    /\ stopped' = TRUE
    /\ h_stop_again' = (h_stop_again \/ stopped)
    /\ UNCHANGED <<doc_vars, content_vars, error_vars, h_recv, nmsgs, queue_vars,
                   msg_vars, consumer_vars>>

\* Mutant of reset: the buffer and the recorded contents are kept.
reset_KeepBuffer ==
    /\ stitched_data' = EmptyDict
    /\ int_output' = EmptyDict
    /\ errors' = None
    /\ stopped' = FALSE
    /\ h_stop_again' = FALSE
    /\ h_npush' = 0
    /\ h_nsuccess' = 0
    /\ h_text' = None
    /\ h_replay' = Some(<<>>)
    /\ h_content' = EmptyDict
    /\ h_dup' = FALSE
    /\ h_post' = FALSE
    /\ h_recv' = [type |-> "reset", outcome |-> "returned", push |-> "none",
                  changed |-> content_queue # <<>>, bookkept |-> FALSE,
                  replaced |-> FALSE]
    /\ IF pc \notin {"idle", "done", "raised"}
       THEN /\ h_stream_reset' = TRUE
            /\ delivered' = <<>>
            /\ h_delivered_src' = <<>>
            /\ UNCHANGED <<pc, h_cancelled>>
       ELSE /\ pc' = "idle"
            /\ delivered' = <<>>
            /\ h_delivered_src' = <<>>
            /\ h_stream_reset' = FALSE
            /\ h_cancelled' = FALSE
    /\ UNCHANGED <<content_queue, unfinished, h_queue_src, messages, nmsgs,
                   default_id, created, h_id_omitted>>

\* reset() rebinds every field to a fresh object; a get_output stream that is
\* open goes on against the new objects; the record of what was yielded in the
\* run that ends is dropped, and so is a stream that has ended. A stream that has found the old
\* queue non-empty (line 97) and has not yet called get_nowait() (line 98) calls
\* it on the new, empty queue: QueueEmpty, which no except clause catches.
reset ==
    /\ stitched_data' = EmptyDict
    /\ int_output' = EmptyDict
    /\ errors' = None
    /\ stopped' = FALSE
    /\ h_stop_again' = FALSE
    /\ content_queue' = <<>>
    /\ unfinished' = 0
    /\ messages' = EmptyDict
    /\ h_npush' = 0
    /\ h_nsuccess' = 0
    /\ h_queue_src' = <<>>
    /\ h_text' = None
    /\ h_replay' = Some(<<>>)
    /\ h_content' = EmptyDict
    /\ h_dup' = FALSE
    /\ h_post' = FALSE
    /\ h_recv' = AfterReset(content_queue # <<>>)
    /\ IF StreamOpen
       THEN /\ h_stream_reset' = TRUE
            /\ pc' \in IF pc = "loop" /\ content_queue # <<>>
                        THEN {"loop", "finally_raising"}
                        ELSE {pc}
            /\ delivered' = <<>>
            /\ h_delivered_src' = <<>>
            /\ UNCHANGED h_cancelled
       ELSE /\ pc' = "idle"
            /\ delivered' = <<>>
            /\ h_delivered_src' = <<>>
            /\ h_stream_reset' = FALSE
            /\ h_cancelled' = FALSE
    /\ UNCHANGED <<nmsgs, msg_vars>>

-----------------------------------------------------------------------------
(* OutputActor.get_output, one action per step between two reads of shared *)
(* state; pc names the statement the stream is about to run.               *)

\* [error.message for error in self._errors]
ErrorMessages(errs) == [i \in 1..Len(errs) |-> errs[i].message]

FailureFragment(msgs) == [errors |-> msgs]
Interrupted == FailureFragment(<<"Output interrupted">>)

\* Mutant of get_nowait(): the newest buffered fragment.
QueueFront_Newest(q) == q[Len(q)]

\* get_nowait(): the oldest buffered fragment, and what stays buffered.
QueueFront(q) == Head(q)
QueueRest(q) == Tail(q)

\* The fragment as its reader sees it.
Observed(fragment) ==
    IF IsSuccess(fragment)
    THEN [output |-> int_output, chunks |-> messages]
    ELSE fragment

\* Mutant of the break test: the loop ends as soon as the buffer is empty.
Terminal_Always == TRUE

\* if self._errors or self._stopped
Terminal == Truthy(errors) \/ stopped

\* The call get_output(): a new stream, which runs from the top of its loop.
get_output ==
    /\ ~StreamOpen
    /\ pc' = "loop"
    /\ delivered' = <<>>
    /\ h_delivered_src' = <<>>
    /\ h_stream_reset' = FALSE
    /\ h_cancelled' = FALSE
    /\ h_post' = FALSE
    /\ UNCHANGED <<errors, doc_vars, content_vars, stop_vars, h_recv, nmsgs,
                   queue_vars, msg_vars>>

\* if not self._content_queue.empty(): output = get_nowait(); yield output
Poll ==
    /\ pc = "loop"
    /\ IF content_queue # <<>>
       THEN /\ delivered' = Append(delivered, Observed(QueueFront(content_queue)))
            /\ content_queue' = QueueRest(content_queue)
            /\ h_delivered_src' = Append(h_delivered_src, QueueFront(h_queue_src))
            /\ h_queue_src' = QueueRest(h_queue_src)
            /\ pc' = "task_done"
       ELSE /\ pc' = "check"
            /\ UNCHANGED <<delivered, content_queue, h_delivered_src, h_queue_src>>
    /\ UNCHANGED <<unfinished, h_npush, h_nsuccess, h_stream_reset, h_cancelled,
                   msg_vars, producer_vars>>

\* self._content_queue.task_done(), when the stream is resumed after its yield;
\* it raises ValueError on a queue with no unfinished task, which no except
\* clause of get_output catches.
TaskDone ==
    /\ pc = "task_done"
    /\ IF unfinished > 0
       THEN /\ unfinished' = unfinished - 1
            /\ pc' = "loop"
       ELSE /\ pc' = "finally_raising"
            /\ UNCHANGED unfinished
    /\ UNCHANGED <<content_queue, h_npush, h_nsuccess, h_queue_src, delivered,
                   h_delivered_src, h_stream_reset, h_cancelled, msg_vars,
                   producer_vars>>

\* else: if self._errors or self._stopped: break
Check ==
    /\ pc = "check"
    /\ pc' = IF Terminal THEN "finally" ELSE "sleep"
    /\ UNCHANGED <<delivered, h_delivered_src, h_stream_reset, h_cancelled,
                   queue_vars, msg_vars, producer_vars>>

\* await asyncio.sleep(0.01) returns
Wake ==
    /\ pc = "sleep"
    /\ pc' = "loop"
    /\ UNCHANGED <<delivered, h_delivered_src, h_stream_reset, h_cancelled,
                   queue_vars, msg_vars, producer_vars>>

\* await asyncio.sleep(0.01) raises CancelledError, which is caught and logged
Cancel ==
    /\ pc = "sleep"
    /\ pc' = "finally"
    /\ h_cancelled' = TRUE
    /\ UNCHANGED <<delivered, h_delivered_src, h_stream_reset, queue_vars, msg_vars,
                   producer_vars>>

\* Mutant of the finally clause: the stop flag is tested first.
FinalFragments_StopFirst ==
    IF stopped THEN <<[errors |-> <<"Output interrupted">>]>>
    ELSE IF Truthy(errors)
         THEN <<[errors |-> [i \in 1..Len(errors[1]) |-> errors[1][i].message]]>>
    ELSE <<>>

\* What the finally clause yields.
FinalFragments ==
    IF Truthy(errors) THEN <<FailureFragment(ErrorMessages(errors[1]))>>
    ELSE IF stopped THEN <<Interrupted>>
    ELSE <<>>

\* finally: the terminal failure fragment, then the end of the stream (or the
\* pending exception).
Finally ==
    /\ pc \in {"finally", "finally_raising"}
    /\ delivered' = delivered \o FinalFragments
    /\ h_delivered_src' = h_delivered_src \o [i \in 1..Len(FinalFragments) |-> TerminalSrc]
    /\ pc' = IF pc = "finally" THEN "done" ELSE "raised"
    /\ UNCHANGED <<h_stream_reset, h_cancelled, queue_vars, msg_vars, producer_vars>>

-----------------------------------------------------------------------------
(* Message construction *)

Payloads ==
    {NoData, ContentData(Str("done-A")), ContentStreamChunkData(Doc("a", 1)),
     ErrorsData(<<Error("e1")>>), DictData(Doc("a", 1))}

\* Message(type=t, sender=s, data=d)
NewMessage(t, s, d) ==
    /\ Len(created) < MaxCreated
    /\ created' = Append(created, Message(t, s, d))
    /\ h_id_omitted' = Append(h_id_omitted, TRUE)
    /\ UNCHANGED <<default_id, queue_vars, producer_vars, consumer_vars>>

\* Message(id=i, type=t, sender=s, data=d)
NewMessageWithId(i, t, s, d) ==
    /\ Len(created) < MaxCreated
    /\ created' = Append(created, MessageWithId(i, t, s, d))
    /\ h_id_omitted' = Append(h_id_omitted, FALSE)
    /\ UNCHANGED <<default_id, queue_vars, producer_vars, consumer_vars>>

-----------------------------------------------------------------------------
(* Specifications *)

\* OutputActor.__init__ has called reset(); no stream is open.
ActorInit ==
    /\ created = <<>>
    /\ h_id_omitted = <<>>
    /\ stitched_data = EmptyDict
    /\ int_output = EmptyDict
    /\ errors = None
    /\ stopped = FALSE
    /\ h_stop_again = FALSE
    /\ content_queue = <<>>
    /\ unfinished = 0
    /\ messages = EmptyDict
    /\ pc = "idle"
    /\ delivered = <<>>
    /\ h_npush = 0
    /\ h_nsuccess = 0
    /\ h_queue_src = <<>>
    /\ h_delivered_src = <<>>
    /\ h_text = None
    /\ h_replay = Some(<<>>)
    /\ h_content = EmptyDict
    /\ h_dup = FALSE
    /\ h_post = FALSE
    /\ h_stream_reset = FALSE
    /\ h_cancelled = FALSE
    /\ h_recv = NoRecv
    /\ nmsgs = 0

\* The class body of Message has run: its id default is one uuid4 value.
MsgInit == default_id \in UUIDs /\ ActorInit

\* on_receive never reads the id of a message: one value of the default stands
\* for all of them.
Init == default_id = "u1" /\ ActorInit

Receive == \E m \in Inputs, r \in BOOLEAN, b \in BOOLEAN : on_receive(m, r, b)

ConsumerStep == Poll \/ TaskDone \/ Check \/ Wake \/ Finally

Next ==
    \/ Receive
    \/ on_stop
    \/ reset
    \/ get_output
    \/ Poll
    \/ TaskDone
    \/ Check
    \/ Wake
    \/ Cancel
    \/ Finally

Spec == Init /\ [][Next]_vars

\* The event loop keeps running an uncancelled stream.
FairSpec == Spec /\ WF_vars(ConsumerStep)

MsgNext ==
    \/ \E t \in MessageType, d \in Payloads : NewMessage(t, "A", d)
    \/ \E i \in UUIDs, t \in MessageType, d \in Payloads :
          NewMessageWithId(i, t, "A", d)

MsgSpec == MsgInit /\ [][MsgNext]_vars

-----------------------------------------------------------------------------
(* Properties *)

Last(q) == q[Len(q)]

\* The stream ended and reset() was not called while it was open.
EndedInRun == pc = "done" /\ ~h_stream_reset

\* The fragment is the terminal failure fragment carrying msgs.
IsFailureOf(f, msgs) == IsFailure(f) /\ f.errors = msgs

\* C1 (completion gating): while some dependency has not sent CONTENT in this run,
\* no terminal success fragment has been pushed (none is buffered, none was
\* delivered); and an on_receive call pushes one only when, after it, the set of
\* senders that have sent CONTENT equals the dependency set.
C1_CompletionGating ==
    /\ (\E d \in dependencies : d \notin DOMAIN h_content) =>
          /\ h_nsuccess = 0
          /\ \A i \in DOMAIN content_queue : ~IsSuccess(content_queue[i])
          /\ ~h_stream_reset => \A i \in DOMAIN delivered : ~IsSuccess(delivered[i])
    /\ h_recv.push = "success" => DOMAIN h_content = dependencies

\* A call has just completed the dependency set and its fragment is buffered.
C1_Witness ==
    /\ h_recv.push = "success"
    /\ h_nsuccess = 1
    /\ content_queue # <<>>
    /\ IsSuccess(Last(content_queue))

\* C2 as claimed (exactly one terminal success fragment per run): once every
\* dependency has sent CONTENT, exactly one terminal success fragment has been
\* pushed in the run, whatever else was received.
C2_ExactlyOne == dependencies \subseteq DOMAIN h_content => h_nsuccess = 1

\* C2 as amended: in a run in which no sender's CONTENT is processed twice, at
\* most one terminal success fragment is pushed, whatever else is received, and
\* exactly one has been pushed whenever the set of senders that have sent CONTENT
\* equals the dependency set.
C2_ExactlyOneWithoutRepeat ==
    ~h_dup =>
        /\ h_nsuccess <= 1
        /\ DOMAIN h_content = dependencies => h_nsuccess = 1

\* The set was completed and a further sender's CONTENT was processed after it.
C2_Witness ==
    /\ ~h_dup
    /\ h_nsuccess = 1
    /\ DOMAIN h_content = dependencies \cup {"X"}

\* C3 as claimed (error precedence): a CONTENT_STREAM_CHUNK processed after an
\* ERRORS message of the same run (one that reported an error) changes neither the stitched document nor the
\* rendered output and pushes no fragment.
C3_ErrorPrecedence ==
    (Truthy(errors) /\ h_recv.type = "CONTENT_STREAM_CHUNK") =>
        (~h_recv.changed /\ h_recv.push = "none")

\* C4 (stop vs error): a stream that ended in a run with on_stop() called and no
\* ERRORS message yielded {"errors": ["Output interrupted"]} last; a stream that
\* ended in a run whose ERRORS message (the latest before the end) carried the
\* errors e1..en, n >= 1, yielded their messages, in order, last.
C4_StopVsError ==
    /\ (EndedInRun /\ ~h_cancelled /\ errors = None /\ stopped) =>
          (delivered # <<>> /\ IsFailureOf(Last(delivered), <<"Output interrupted">>))
    /\ (EndedInRun /\ ~h_post /\ Truthy(errors)) =>
          (delivered # <<>>
             /\ IsFailureOf(Last(delivered),
                            [i \in 1..Len(errors[1]) |-> errors[1][i].message]))

\* A stopped stream ended after delivering a fragment and the interruption.
C4_Witness ==
    /\ EndedInRun /\ ~h_cancelled /\ errors = None /\ stopped
    /\ Len(delivered) = 2
    /\ IsIncremental(delivered[1])
    /\ IsFailureOf(delivered[2], <<"Output interrupted">>)

\* The stream ended after yielding exactly one terminal failure fragment, last.
EndedWithFailure ==
    /\ ~StreamOpen
    /\ delivered # <<>>
    /\ IsFailure(Last(delivered))
    /\ \A i \in 1..(Len(delivered) - 1) : ~IsFailure(delivered[i])

\* C5 as claimed (every ERRORS message is terminal): once an ERRORS message has
\* been processed, whatever the length of its list, a stream that is open and is
\* neither cancelled nor cut from its run by reset() eventually ends with exactly
\* one terminal failure fragment, last.
C5_ErrorsTerminal ==
    (StreamOpen /\ ~h_stream_reset /\ errors # None) ~>
        (EndedWithFailure \/ h_stream_reset \/ h_cancelled)

\* C6 (FIFO delivery): the fragments a stream yields, its terminal failure
\* fragment aside, come in the order they were pushed, each once, and before
\* every fragment still buffered.
C6_Fifo ==
    ~h_stream_reset =>
        /\ \A i, j \in DOMAIN h_delivered_src :
              (i < j /\ h_delivered_src[i] # TerminalSrc
                     /\ h_delivered_src[j] # TerminalSrc) =>
                  h_delivered_src[i].k < h_delivered_src[j].k
        /\ \A i \in DOMAIN h_delivered_src, j \in DOMAIN h_queue_src :
              h_delivered_src[i].k < h_queue_src[j].k
        /\ \A i, j \in DOMAIN h_queue_src :
              i < j => h_queue_src[i].k < h_queue_src[j].k

\* Two fragments were buffered together and the stream has yielded the older.
C6_Witness ==
    /\ ~h_stream_reset
    /\ Len(h_delivered_src) = 1
    /\ h_delivered_src[1].k = 1
    /\ Len(h_queue_src) = 2
    /\ pc = "task_done"

\* C7 as claimed (drain before terminal failure): when a stream that was neither
\* cancelled nor reset has yielded its terminal failure fragment, no fragment
\* pushed before the error list or the stop flag was set is still buffered.
C7_DrainBeforeFailure ==
    (~h_stream_reset /\ ~h_cancelled /\ delivered # <<>> /\ IsFailure(Last(delivered))) =>
        \A i \in DOMAIN h_queue_src : ~h_queue_src[i].clean

Dumped(c) == IF c.kind = "BaseModel" THEN [kind |-> "dict", value |-> c.value] ELSE c

ChunkMerged(m) ==
    LET S == m.sender
        C == m.data.chunk
        Under(doc) == {p \in DOMAIN doc : Head(p) = S}
    IN  /\ S \in spread_output_for_keys =>
              /\ \A p \in DOMAIN C :
                    p \in DOMAIN stitched_data' /\ stitched_data'[p] = C[p]
              /\ Under(stitched_data') = Under(stitched_data)
        /\ S \notin spread_output_for_keys =>
              /\ \A p \in DOMAIN C :
                    /\ <<S>> \o p \in DOMAIN stitched_data'
                    /\ stitched_data'[<<S>> \o p] = C[p]
                    /\ p \in DOMAIN stitched_data' <=> p \in DOMAIN stitched_data
        /\ h_npush' = h_npush + 1 =>
              /\ IsIncremental(Last(content_queue'))
              /\ Last(content_queue').chunk = (S :> C)

\* C9 (spread vs namespaced merge): a CONTENT_STREAM_CHUNK from a sender of the
\* spread set puts the chunk's keys at the top level of the stitched document and
\* creates nothing under the sender's key; from another sender it puts them under
\* the sender's key and not at the top level; the fragment pushed has the chunk
\* field {sender: chunk} in both cases.
C9_SpreadVsNamespaced ==
    [][\A m \in ChunkMessages :
          (/\ h_recv'.type = m.type
           /\ \E r \in BOOLEAN, b \in BOOLEAN : on_receive(m, r, b)) => ChunkMerged(m)]_vars

\* Both kinds of sender have contributed {"a": ...}.
C9_Witness ==
    /\ stitched_data = (<<"A", "a">> :> 1) @@ (<<"a">> :> 2)
    /\ Len(content_queue) = 2
    /\ content_queue[1].chunk = ("A" :> Doc("a", 1))
    /\ content_queue[2].chunk = ("B" :> Doc("a", 2))

\* C10 as claimed (message id uniqueness): two Message values constructed without
\* an explicit id have different ids.
C10_UniqueIds ==
    \A i, j \in DOMAIN created :
        (i < j /\ h_id_omitted[i] /\ h_id_omitted[j]) => created[i].id # created[j].id

\* The payload shape the type of a message calls for (CONTENT: content payload,
\* CONTENT_STREAM_CHUNK: chunk payload, ERRORS: errors payload).
PayloadMatchesType(m) ==
    /\ m.type = "CONTENT" => m.data.cls = "ContentData"
    /\ m.type = "CONTENT_STREAM_CHUNK" => m.data.cls = "ContentStreamChunkData"
    /\ m.type = "ERRORS" => m.data.cls = "ErrorsData"

\* C11 as claimed (payload/type match at construction): every Message that was
\* constructed carries the payload shape its type calls for; a construction with
\* another payload, or with none, is rejected.
C11_PayloadMatchesType == \A i \in DOMAIN created : PayloadMatchesType(created[i])

\* C12 as claimed (failure containment in on_receive): every on_receive call, on
\* every message the Message model allows, returns normally.
C12_NeverRaises == h_recv.outcome = "returned"

\* The fields of the aggregator.
actor_state == <<stitched_data, int_output, errors, stopped, content_queue, unfinished,
                 messages>>

\* The terminal failure fragments among the fragments a stream yielded.
Failures(q) == {i \in DOMAIN q : IsFailure(q[i])}

\* C13 (stop is level-triggered and sticky): once set, the stop flag stays set
\* under every step but the reset() that starts another run; an on_stop() call
\* with the flag already set leaves every field of the aggregator as it was; and
\* a stream that ended, uncancelled, in a run with on_stop() called, once or more,
\* and no ERRORS message yielded exactly one terminal failure fragment,
\* {"errors": ["Output interrupted"]}, last.
C13_StopSticky ==
    /\ [][(stopped /\ ~stopped') => reset]_vars
    /\ [][(stopped /\ on_stop) => UNCHANGED actor_state]_vars
    /\ [](h_stop_again => stopped)
    /\ []((EndedInRun /\ ~h_cancelled /\ errors = None /\ stopped) =>
            /\ Failures(delivered) = {Len(delivered)}
            /\ Last(delivered) = [errors |-> <<"Output interrupted">>])

\* on_stop() was called twice and the stream ended, after a fragment, with the
\* one interruption.
C13_Witness ==
    /\ h_stop_again /\ stopped
    /\ EndedInRun /\ ~h_cancelled /\ errors = None
    /\ Len(delivered) = 2
    /\ IsIncremental(delivered[1])
    /\ delivered[2] = [errors |-> <<"Output interrupted">>]

\* C14 as claimed (consumer cancellation only stops emission): once a stream has
\* been cancelled at its suspension point it yields no further fragment, whatever
\* the error list and the stop flag are; and the cancellation changes no field of
\* the aggregator.
C14_CancelStopsEmission ==
    /\ [][(h_cancelled /\ h_cancelled') => Len(delivered') <= Len(delivered)]_vars
    /\ [][Cancel => UNCHANGED actor_state]_vars

\* C15 (reset() starts a fresh run): whatever the state it is called in, reset()
\* leaves the stitched document, the rendered output and the recorded contents
\* empty, the error list unset, the stop flag false and the buffer empty; hence
\* every buffered fragment was pushed in the current run, a fragment a stream
\* takes from the buffer was pushed in the current run, and the recorded contents
\* are those of the CONTENT messages of the current run.
C15_ResetStartsFreshRun ==
    /\ [][reset => /\ stitched_data' = EmptyDict
                   /\ int_output' = EmptyDict
                   /\ messages' = EmptyDict
                   /\ errors' = None
                   /\ stopped' = FALSE
                   /\ content_queue' = <<>>]_vars
    /\ [](/\ Len(content_queue) = Len(h_queue_src)
          /\ \A i \in DOMAIN h_queue_src : h_queue_src[i].k \in 1..h_npush
          /\ \A i \in DOMAIN content_queue :
                IsSuccess(content_queue[i]) => h_nsuccess > 0
          /\ DOMAIN messages = DOMAIN h_content)
    /\ [][(pc = "loop" /\ pc' = "task_done") =>
             Last(h_delivered_src').k \in 1..h_npush]_vars

\* reset() has just dropped buffered fragments, under an open stream that had
\* yielded one and was to be resumed, and every field is fresh.
C15_Witness ==
    /\ h_recv = AfterReset(TRUE)
    /\ h_stream_reset
    /\ pc = "task_done"
    /\ actor_state = <<EmptyDict, EmptyDict, None, FALSE, <<>>, 0, EmptyDict>>
    /\ nmsgs >= 2

\* C16 as claimed (bookkeeping failure never affects the run): an on_receive call
\* on a CONTENT_STREAM_CHUNK whose bookkeeping emission fails ends in the state in
\* which the same call ends when the emission succeeds: the incremental fragment
\* is pushed and the stitched document, the rendered output and the buffer are
\* the same.
C16_BookkeepingNeverAffects ==
    [][\A m \in ChunkMessages :
          on_receive(m, TRUE, FALSE) =>
              /\ Len(content_queue') = Len(content_queue) + 1
              /\ IsIncremental(Last(content_queue'))
              /\ Last(content_queue').chunk = (m.sender :> m.data.chunk)
              /\ stitched_data' = stitch_model_objects(stitched_data,
                                                       ChunkContribution(m))
              /\ int_output' =
                    [output |-> render_template(templates.output, stitched_data')]]_vars

\* The text of the last render that succeeded in this run, "" before any.
LastGood == IF h_text = None THEN <<>> ELSE h_text[1]

\* C17 (render failure is recoverable): an on_receive call on a
\* CONTENT_STREAM_CHUNK whose render fails pushes no fragment, emits no
\* bookkeeping record and leaves the rendered output, the error list and the stop
\* flag as they were; the rendered output is always the text of the last render
\* that succeeded; and a call whose render and bookkeeping succeed pushes a
\* fragment whose delta is computed from that text to the new one.
C17_RenderFailureRecoverable ==
    /\ [][\A m \in ChunkMessages :
             (h_recv'.type = m.type /\ \E b \in BOOLEAN : on_receive(m, FALSE, b)) =>
                 /\ UNCHANGED <<content_queue, int_output, errors, stopped>>
                 /\ h_recv'.push = "none" /\ ~h_recv'.bookkept]_vars
    /\ [](int_output = IF h_text = None THEN EmptyDict ELSE [output |-> h_text[1]])
    /\ [][\A m \in ChunkMessages :
             (h_recv'.type = m.type /\ on_receive(m, TRUE, TRUE)) =>
                 /\ Len(content_queue') = Len(content_queue) + 1
                 /\ Last(content_queue').deltas.output =
                        to_delta(LastGood, LastGood')]_vars

\* A's chunk failed to render and B's, next, rendered: its delta is computed from
\* the empty text.
C17_Witness ==
    /\ nmsgs = 2
    /\ stitched_data = (<<"A", "a">> :> 1) @@ (<<"a">> :> 2)
    /\ int_output = [output |-> <<1, 2>>]
    /\ content_queue =
          <<IncrementalFragment([keep |-> 0, delete |-> 0, insert |-> <<1, 2>>],
                                "B", Doc("a", 2))>>

\* C18 as claimed (delta chain consistency): after any sequence of on_receive
\* calls, the deltas of the incremental fragments pushed in the run, applied in
\* order to the empty text, give the current rendered output.
C18_DeltaChain ==
    h_replay = Some(IF "output" \in DOMAIN int_output THEN int_output.output ELSE <<>>)

\* C19 (get_output ends only on error, stop or cancellation): a stream that has
\* left its loop, within its run and uncancelled, did so in a run in which an
\* ERRORS message was processed or on_stop() was called; and while the buffer is
\* empty, no ERRORS message was processed and the stop flag is unset, no step
\* yields a fragment.
C19_EndsOnlyOnTerminal ==
    /\ []((pc \in {"finally", "finally_raising", "done", "raised"}
             /\ ~h_stream_reset /\ ~h_cancelled) =>
            (errors # None \/ stopped))
    /\ [][(content_queue = <<>> /\ errors = None /\ ~stopped) =>
             Len(delivered') <= Len(delivered)]_vars

\* The stream has yielded the terminal success fragment, found the buffer empty
\* and the run neither in error nor stopped, and sleeps before polling again.
C19_Witness ==
    /\ pc = "sleep"
    /\ ~h_stream_reset /\ ~h_cancelled
    /\ errors = None /\ ~stopped
    /\ content_queue = <<>>
    /\ delivered # <<>> /\ IsSuccess(Last(delivered))

\* C20 (a CONTENT from a non-dependency sender blocks completion): an on_receive
\* call on a CONTENT message whose sender is not a dependency records the sender
\* in the recorded contents; and no step that ends with such a sender recorded
\* pushes a terminal success fragment, that call included and whichever
\* dependencies have sent their CONTENT.
C20_NonDependencyBlocks ==
    /\ [][\A m \in ContentMessages :
             (m.sender \notin dependencies /\ h_recv'.type = m.type
                /\ \E r \in BOOLEAN, b \in BOOLEAN : on_receive(m, r, b)) =>
                 /\ m.sender \in DOMAIN messages'
                 /\ messages'[m.sender] = FinalValue(m.data.content)]_vars
    /\ [][(\E s \in DOMAIN messages' : s \notin dependencies) =>
             h_nsuccess' <= h_nsuccess]_vars

\* X's CONTENT came first; both dependencies have sent theirs since and no
\* terminal success fragment was pushed.
C20_Witness ==
    /\ DOMAIN messages = dependencies \cup {"X"}
    /\ ~h_dup
    /\ h_nsuccess = 0
    /\ h_recv.type = "CONTENT" /\ h_recv.push = "none"

\* C21 (error wins over stop): a stream that ended in a run in which a non-empty
\* error list was recorded and the stop flag was set, in either order and both
\* before the stream ended, yielded exactly one terminal failure fragment, last,
\* and it carries the messages of the recorded errors, not "Output interrupted".
C21_ErrorWinsOverStop ==
    (EndedInRun /\ ~h_post /\ Truthy(errors) /\ stopped) =>
        /\ Failures(delivered) = {Len(delivered)}
        /\ Last(delivered).errors = ErrorMessages(errors[1])
        /\ Last(delivered).errors # <<"Output interrupted">>

\* The run was stopped and in error when the stream, having yielded a fragment,
\* ended with the one failure fragment of the errors.
C21_Witness ==
    /\ EndedInRun /\ ~h_post /\ ~h_cancelled
    /\ stopped
    /\ errors = Some(<<Error("e2"), Error("e1")>>)
    /\ Len(delivered) = 2
    /\ IsIncremental(delivered[1])
    /\ delivered[2] = [errors |-> <<"e2", "e1">>]

\* C22 (last ERRORS message wins): every ERRORS message processed replaces the
\* recorded error list by its own; so the terminal failure fragment of a stream
\* that ended in a run with ERRORS messages carries the messages of the last of
\* them processed before the end and of no earlier one (when that last list is
\* empty the fragment, if any, is the interruption of a stopped run).
C22_LastErrorsWins ==
    /\ [][\A m \in ErrorsMessages :
             (h_recv'.type = m.type
                /\ \E r \in BOOLEAN, b \in BOOLEAN : on_receive(m, r, b)) =>
                 errors' = Some(m.data.errors)]_vars
    /\ []((EndedInRun /\ ~h_post /\ errors # None
             /\ delivered # <<>> /\ IsFailure(Last(delivered))) =>
            Last(delivered).errors =
                IF Truthy(errors) THEN ErrorMessages(errors[1])
                ELSE <<"Output interrupted">>)

\* The ERRORS message [e1] replaced the recorded [e2, e1] and the stream ended
\* with e1 alone.
C22_Witness ==
    /\ h_recv.type = "ERRORS" /\ h_recv.replaced
    /\ errors = Some(<<Error("e1")>>)
    /\ EndedInRun /\ ~h_post
    /\ delivered = <<[errors |-> <<"e1">>]>>

====
